---- MODULE Spec2Model ----
(***************************************************************************)
(* A model of app.py, the Streamlit script of the IAM policy dashboard.    *)
(*                                                                         *)
(* One run of the script loads every iteration_*.json file of the results  *)
(* directory, loads final_dashboard.json, and renders the page chosen in   *)
(* the sidebar.  Streamlit reruns the whole script, from the top, whenever *)
(* the user changes a widget.                                              *)
(*                                                                         *)
(* Conventions of the data model.                                          *)
(*   - A Python string whose characters matter (a contract name, which is  *)
(*     sorted, or a proof outcome, which is prefix-tested) is a sequence   *)
(*     of one-character strings; Ord gives a character's code point.       *)
(*   - A dictionary key that may be missing, or a value that may be null,  *)
(*     is an option: <<>> when missing or null, <<v>> when it holds v.     *)
(*   - A number with a fractional part is an integer count of 1/10000.     *)
(***************************************************************************)
EXTENDS Integers, Sequences, FiniteSets

VARIABLES
    dir,                \* the iteration_*.json files, in sorted(os.listdir) order
    dashboard_file,     \* final_dashboard.json, an option
    page,               \* the sidebar radio
    selected,           \* the "Select iteration:" selectbox, <<>> until the user picks
    pc,                 \* where the run of the script is
    idx,                \* the loop position in load_iteration_data
    results,            \* the local dict of load_iteration_data
    iteration_results,  \* the module-level name, an option (unbound until the load returns)
    final_dashboard,    \* the module-level name, an option
    exc,                \* the exception that ended the run, "" when none
    capsule,            \* Iteration Explorer: the summary capsule, an option
    cst_section,        \* Iteration Explorer: the CST results section
    provenance_rows,    \* Results Dashboard: the provenance rows
    provenance_view,    \* Results Dashboard: what the provenance section showed
    rep_df,             \* Results Dashboard: the rows of rep_df (the charted series)
    repair_view,        \* Results Dashboard: what the repair section showed
    cst_view,           \* Results Dashboard: what the CST summary section showed
    prev_rows           \* history: the provenance rows of the run before, an option

vars == <<dir, dashboard_file, page, selected, pc, idx, results, iteration_results,
          final_dashboard, exc, capsule, cst_section, provenance_rows,
          provenance_view, rep_df, repair_view, cst_view, prev_rows>>

views == <<capsule, cst_section, provenance_rows, provenance_view, rep_df,
           repair_view, cst_view>>

-----------------------------------------------------------------------------
(* Bounds of the model. *)

MaxFiles == 3          \* iteration files in the directory (record store runs)
MaxEvolved == 2        \* length of the evolved_contracts list
MaxCandidates == 1     \* length of the candidate_contracts list
MaxRepairs == 2        \* length of each of repair_improvements, repair_failures
MaxIterationId == 1    \* iteration ids are 0 .. MaxIterationId
MaxCstFiles == 2       \* iteration files in the directory (CST runs)
MaxProofFiles == 1     \* iteration files in the directory (strict-mode runs)
MaxRates == 1          \* length of each of before_rates, after_rates

-----------------------------------------------------------------------------
(* Python values. *)

None == <<>>
Some(v) == <<v>>
Option(S) == {None} \cup {Some(v) : v \in S}

\* dict.get(key, default) on a key that is missing: the default.  The same
\* shape serves "x is not None".
Get(opt, default) == IF opt = None THEN default ELSE opt[1]

Ord(ch) ==
    CASE ch = "A" -> 65 [] ch = "B" -> 66 [] ch = "F" -> 70 [] ch = "I" -> 73
      [] ch = "L" -> 76 [] ch = "P" -> 80 [] ch = "S" -> 83 [] ch = "X" -> 88
      [] ch = ":" -> 58 [] ch = "a" -> 97 [] ch = "b" -> 98 [] ch = "w" -> 119

\* str.__lt__: code-point lexicographic, a proper prefix first.
RECURSIVE StrLess(_, _)
StrLess(s, t) ==
    IF t = <<>> THEN FALSE
    ELSE IF s = <<>> THEN TRUE
    ELSE IF Ord(s[1]) # Ord(t[1]) THEN Ord(s[1]) < Ord(t[1])
    ELSE StrLess(Tail(s), Tail(t))

\* sorted(a set of strings)
RECURSIVE sorted(_)
sorted(S) ==
    IF S = {} THEN <<>>
    ELSE LET m == CHOOSE x \in S : \A y \in S \ {x} : StrLess(x, y)
         IN  <<m>> \o sorted(S \ {m})

\* startswith as an exact match.
startswith_exact(v, prefix) == v = prefix

\* v.startswith(prefix)
startswith(v, prefix) ==
    /\ Len(v) >= Len(prefix)
    /\ SubSeq(v, 1, Len(prefix)) = prefix

\* set(a list)
ToSet(list) == {list[i] : i \in 1..Len(list)}

\* The sequences over S of length at most n.
SeqUpTo(S, n) == UNION {[1..k -> S] : k \in 0..n}

\* The dicts (functions) with keys among K and values in V.
Dicts(K, V) == UNION {[D -> V] : D \in SUBSET K}

\* num / den to the nearest integer, a tie to the even neighbour (den > 0).
RoundHalfEven(num, den) ==
    LET q == num \div den
        r == num % den
    IN  IF 2 * r < den THEN q
        ELSE IF 2 * r > den THEN q + 1
        ELSE IF q % 2 = 0 THEN q ELSE q + 1

\* round(x, 3) and format(x, ".3f"): x, a count of 1/10000, to the nearest
\* 1/1000.  The result is a count of 1/1000.
round3(x) == RoundHalfEven(x, 10)

\* round(series.mean(), 3) of a non-empty series of counts of 1/10000.
round3mean(sum, n) == RoundHalfEven(sum, 10 * n)

RECURSIVE SumSeq(_)
SumSeq(s) == IF s = <<>> THEN 0 ELSE s[1] + SumSeq(Tail(s))

-----------------------------------------------------------------------------
(* load_iteration_data, lines 16-23.                                       *)
(* A dict keeps its keys in insertion order, and the selectbox lists them  *)
(* in that order, so the dict is a sequence of [key, value] items.         *)

Keys(d) == [i \in 1..Len(d) |-> d[i].key]

HasKey(d, k) == \E i \in 1..Len(d) : d[i].key = k

Lookup(d, k) == d[CHOOSE i \in 1..Len(d) : d[i].key = k].value

\* d[k] = v: a key already in the dict keeps its place and takes the new value.
SetItem(d, k, v) ==
    IF HasKey(d, k)
    THEN [i \in 1..Len(d) |-> IF d[i].key = k THEN [key |-> k, value |-> v] ELSE d[i]]
    ELSE Append(d, [key |-> k, value |-> v])

\* The script starts again from the top (line 17, results = {}) with nothing
\* of the run before but the widgets' values.
StartRun ==
    /\ pc' = "load_iteration_data"
    /\ prev_rows' = IF pc = "done" /\ page = "Results Dashboard"
                    THEN Some(provenance_rows) ELSE None
    /\ idx' = 1
    /\ results' = <<>>
    /\ iteration_results' = None
    /\ final_dashboard' = None
    /\ exc' = ""
    /\ capsule' = None
    /\ cst_section' = "not rendered"
    /\ provenance_rows' = <<>>
    /\ provenance_view' = "not rendered"
    /\ rep_df' = <<>>
    /\ repair_view' = [kind |-> "not rendered"]
    /\ cst_view' = [kind |-> "not rendered"]

\* An uncaught exception ends the run; Streamlit shows the traceback.
Raise(name) ==
    /\ pc' = "crashed"
    /\ exc' = name

\* One turn of the loop of lines 18-22: json.load, then results[data["iteration"]] = data.
\* A file without the "iteration" key raises KeyError out of the function, and
\* out of the script, since nothing catches it.
LoadIterationFile ==
    /\ pc = "load_iteration_data"
    /\ idx <= Len(dir)
    /\ LET data == dir[idx] IN
         IF data.iteration = None
         THEN /\ Raise("KeyError")
              /\ UNCHANGED <<idx, results>>
         ELSE /\ results' = SetItem(results, data.iteration[1], data)
              /\ idx' = idx + 1
              /\ UNCHANGED <<pc, exc>>
    /\ UNCHANGED <<dir, dashboard_file, page, selected, iteration_results,
                   final_dashboard, views, prev_rows>>

\* Line 23 and line 29: return results; iteration_results = load_iteration_data().
ReturnIterationData ==
    /\ pc = "load_iteration_data"
    /\ idx > Len(dir)
    /\ iteration_results' = Some(results)
    /\ pc' = "load_final_dashboard"
    /\ UNCHANGED <<dir, dashboard_file, page, selected, idx, results,
                   final_dashboard, exc, views, prev_rows>>

\* Lines 25-27 and line 30.
LoadFinalDashboard ==
    /\ pc = "load_final_dashboard"
    /\ IF dashboard_file = None
       THEN /\ Raise("FileNotFoundError")
            /\ UNCHANGED final_dashboard
       ELSE /\ final_dashboard' = dashboard_file
            /\ pc' = "page"
            /\ UNCHANGED exc
    /\ UNCHANGED <<dir, dashboard_file, page, selected, idx, results,
                   iteration_results, views, prev_rows>>

-----------------------------------------------------------------------------
(* Page 1, Overview: lines 48-61.  Two metrics, no branch that can fail.   *)

RenderOverview ==
    /\ pc = "page"
    /\ page = "Overview"
    /\ pc' = "done"
    /\ UNCHANGED <<dir, dashboard_file, page, selected, idx, results,
                   iteration_results, final_dashboard, exc, views, prev_rows>>

-----------------------------------------------------------------------------
(* Page 2, Iteration Explorer: lines 66-171.                               *)
(* An iteration record is read here as iteration, proof.strict_mode and    *)
(* cst_results; mutation_meta, proof.exploratory_mode and repaired_policy, *)
(* which the page indexes as well, are taken to be there.                  *)

FAIL == <<"F", "A", "I", "L">>

\* The empty dict that data.get("cst_results", {}) falls back to.  A
\* cst_results dict holds before.violation_rate, after.violation_rate and
\* violation_reduction, each an option.
EmptyCst == [before |-> None, after |-> None, violation_reduction |-> None]

\* bool(cst): a dict is true when it has a key.
CstTruthy(cst) ==
    \/ cst.before # None
    \/ cst.after # None
    \/ cst.violation_reduction # None

\* sum(1 for v in strict_mode.values() if v.startswith('FAIL')), line 88.
RECURSIVE CountFailures(_, _)
CountFailures(strict_mode, keys) ==
    IF keys = {} THEN 0
    ELSE LET k == CHOOSE x \in keys : TRUE
         IN  (IF startswith(strict_mode[k], FAIL) THEN 1 ELSE 0)
                 + CountFailures(strict_mode, keys \ {k})

\* st.selectbox over list(iteration_results.keys()), line 72: the user's
\* pick, the first option before any pick, None when there is no option.
SelectboxValue(options) ==
    IF selected # None /\ \E i \in 1..Len(options) : options[i] = selected[1]
    THEN selected
    ELSE IF options = <<>> THEN None ELSE Some(options[1])

\* Lines 74-91: the summary capsule.  The three rates are read with a
\* default of 0 and formatted with .3f.
SummaryCapsule(iteration, data) ==
    LET cst == Get(data.cst_results, EmptyCst)
        before_rate == Get(cst.before, 0)
        after_rate == Get(cst.after, 0)
        reduction == Get(cst.violation_reduction, 0)
        strict_mode == data.proof[1].strict_mode
    IN  [iteration |-> iteration,
         contracts |-> Cardinality(DOMAIN strict_mode),
         failures  |-> CountFailures(strict_mode, DOMAIN strict_mode),
         before    |-> round3(before_rate),
         after     |-> round3(after_rate),
         reduction |-> round3(reduction)]

\* Lines 141-147.
CstSection(data) ==
    IF CstTruthy(Get(data.cst_results, EmptyCst)) THEN "json" ELSE "info: No CST results found"

RenderExplorer ==
    /\ pc = "page"
    /\ page = "Iteration Explorer"
    /\ LET rs == iteration_results[1]
           iteration == SelectboxValue(Keys(rs))
       IN  IF iteration = None
           THEN \* line 73: iteration_results[None]
                /\ Raise("KeyError")
                /\ UNCHANGED <<capsule, cst_section>>
           ELSE LET data == Lookup(rs, iteration[1]) IN
                IF data.proof = None
                THEN \* line 87: data['proof']
                     /\ Raise("KeyError")
                     /\ UNCHANGED <<capsule, cst_section>>
                ELSE /\ capsule' = Some(SummaryCapsule(iteration[1], data))
                     /\ cst_section' = CstSection(data)
                     /\ pc' = "done"
                     /\ UNCHANGED exc
    /\ UNCHANGED <<dir, dashboard_file, page, selected, idx, results,
                   iteration_results, final_dashboard, provenance_rows,
                   provenance_view, rep_df, repair_view, cst_view, prev_rows>>

-----------------------------------------------------------------------------
(* Page 3, Results Dashboard: lines 175-309.                               *)

\* --- Contract provenance, lines 195-235 ---

\* Line 203: meta.get(cname, {}).get("origin", "unknown")
OriginOf(meta, cname) ==
    IF cname \in DOMAIN meta THEN Get(meta[cname].origin, "unknown") ELSE "unknown"

\* origin_symbol with the last branch lost: whatever is not "gpt" is a seed.
origin_symbol_no_else(origin) ==
    IF origin = "gpt" THEN "GPT" ELSE "Seed"

\* Lines 207-212.
origin_symbol(origin) ==
    IF origin = "gpt" THEN "GPT"
    ELSE IF origin = "seed" THEN "Seed"
    ELSE "Evolved"

\* status with its two tests in the other order: the origin first.
status_origin_first(cname, evolved, origin) ==
    IF origin = "seed" THEN "Stable"
    ELSE IF cname \in evolved THEN "Promoted"
    ELSE "Candidate"

\* Lines 215-220.
status(cname, evolved, origin) ==
    IF cname \in evolved THEN "Promoted"
    ELSE IF origin = "seed" THEN "Stable"
    ELSE "Candidate"

\* all_contracts without the candidates.
all_contracts_no_candidates(evolved, candidates, meta) ==
    evolved \cup DOMAIN meta

\* Line 201.
all_contracts(evolved, candidates, meta) ==
    evolved \cup candidates \cup DOMAIN meta

\* Lines 195-226: the rows, in the order of the loop over sorted(all_contracts).
ProvenanceRows(fd) ==
    LET meta == Get(fd.contract_metadata, <<>>)
        evolved == ToSet(Get(fd.evolved_contracts, <<>>))
        candidates == ToSet(Get(fd.candidate_contracts, <<>>))
        names == sorted(all_contracts(evolved, candidates, meta))
    IN  [i \in 1..Len(names) |->
            [Contract |-> names[i],
             Origin |-> origin_symbol(OriginOf(meta, names[i])),
             PromotionStatus |-> status(names[i], evolved, OriginOf(meta, names[i]))]]

\* Lines 228-235.
ProvenanceView(rows) ==
    IF rows # <<>> THEN "dataframe" ELSE "info: No contract metadata available"

\* --- Repair impact summary, lines 256-278 ---

\* Line 257: improvements first, then failures.
RepairData(fd) ==
    Get(fd.repair_improvements, <<>>) \o Get(fd.repair_failures, <<>>)

\* rep_df as a series keyed by iteration id, in which a later tuple replaces
\* an earlier tuple of the same id.
RECURSIVE DropOverridden(_)
DropOverridden(s) ==
    IF s = <<>> THEN <<>>
    ELSE IF \E j \in 2..Len(s) : s[j][1] = s[1][1] THEN DropOverridden(Tail(s))
    ELSE <<s[1]>> \o DropOverridden(Tail(s))

RepDf_last_wins(repair_data) ==
    LET d == DropOverridden(repair_data)
    IN  [i \in 1..Len(d) |->
            [Iteration  |-> d[i][1],
             Before     |-> d[i][2],
             After      |-> d[i][3],
             CstDelta   |-> d[i][4],
             DeltaProofScore |-> d[i][3] - d[i][2]]]

\* Lines 258-261: one row of rep_df for each tuple of repair_data, in its
\* order.  set_index("Iteration") labels each row with its iteration id and
\* drops none: rows with equal labels all stay.
RepDf(repair_data) ==
    [i \in 1..Len(repair_data) |->
        [Iteration  |-> repair_data[i][1],
         Before     |-> repair_data[i][2],
         After      |-> repair_data[i][3],
         CstDelta   |-> repair_data[i][4],
         DeltaProofScore |-> repair_data[i][3] - repair_data[i][2]]]

Column(df, name) == [i \in 1..Len(df) |-> df[i][name]]

\* Line 256: a list is true when it is not empty; a missing key gives None.
RepairGuard(fd) ==
    Get(fd.repair_improvements, <<>>) # <<>> \/ Get(fd.repair_failures, <<>>) # <<>>

\* Lines 256-278.  The if of line 256 has no else: with nothing to show the
\* section ends after its subheader.
RepairView(fd) ==
    IF RepairGuard(fd)
    THEN LET df == RepDf(RepairData(fd))
             n == Len(df)
         IN  [kind |-> "metrics",
              avg_before |-> round3mean(SumSeq(Column(df, "Before")), n),
              avg_after  |-> round3mean(SumSeq(Column(df, "After")), n),
              avg_delta  |-> round3mean(SumSeq(Column(df, "DeltaProofScore")), n)]
    ELSE [kind |-> "nothing"]

\* --- Canonical CST summary, lines 288-300 ---

\* A JSON value that may be null: Null, or Num(n).
Null == <<>>
Num(n) == <<n>>

\* The empty dict that final_dashboard.get("cst_summary", {}) falls back to.
EmptyCs == [avg_before |-> None, avg_after |-> None, avg_delta |-> None,
            before_rates |-> None, after_rates |-> None]

\* bool(cs): a dict is true when it has a key.
CsTruthy(cs) ==
    \E f \in {"avg_before", "avg_after", "avg_delta", "before_rates", "after_rates"} :
        cs[f] # None

\* The guard of line 289 without its test of avg_before.
CsGuard_truthy_only(cs) == CsTruthy(cs)

\* Line 289: cs and cs.get("avg_before") is not None
CsGuard(cs) == CsTruthy(cs) /\ Get(cs.avg_before, Null) # Null

\* Lines 290-298, statement by statement; each metric is on the page once its
\* statement has run.  cs["k"] raises KeyError on a missing key, round(None, 3)
\* raises TypeError, and pd.DataFrame raises ValueError on two columns of
\* different lengths.
CsMetrics(cs) ==
    LET shown(f) == IF cs[f] # None /\ cs[f][1] # Null THEN Some(round3(cs[f][1][1])) ELSE None
        fails(f) == cs[f] = None \/ cs[f][1] = Null
        error(f) == IF cs[f] = None THEN "KeyError" ELSE "TypeError"
        base == [kind |-> "metrics", avg_before |-> shown("avg_before"),
                 avg_after |-> None, avg_delta |-> None, chart |-> None, exc |-> ""]
    IN  IF fails("avg_after") THEN [base EXCEPT !.exc = error("avg_after")]
        ELSE IF fails("avg_delta")
        THEN [base EXCEPT !.avg_after = shown("avg_after"), !.exc = error("avg_delta")]
        ELSE LET m == [base EXCEPT !.avg_after = shown("avg_after"),
                                   !.avg_delta = shown("avg_delta")]
             IN  IF cs.before_rates = None \/ cs.after_rates = None
                 THEN [m EXCEPT !.exc = "KeyError"]
                 ELSE IF Len(cs.before_rates[1]) # Len(cs.after_rates[1])
                 THEN [m EXCEPT !.exc = "ValueError"]
                 ELSE [m EXCEPT !.chart = Some([baseline |-> cs.before_rates[1],
                                                after_pcr |-> cs.after_rates[1]])]

CstView(fd) ==
    LET cs == Get(fd.cst_summary, EmptyCs)
    IN  IF CsGuard(cs) THEN CsMetrics(cs)
        ELSE [kind |-> "warning: No CST summary available", avg_before |-> None,
              avg_after |-> None, avg_delta |-> None, chart |-> None, exc |-> ""]

\* The page, top to bottom.  An exception ends the run where it is raised:
\* the sections below it are not rendered.
RenderDashboard ==
    /\ pc = "page"
    /\ page = "Results Dashboard"
    /\ LET fd == final_dashboard[1] IN
         IF fd.evolved_contracts = None
         THEN \* line 182: final_dashboard["evolved_contracts"]
              /\ Raise("KeyError")
              /\ UNCHANGED <<provenance_rows, provenance_view, rep_df, repair_view, cst_view>>
         ELSE /\ provenance_rows' = ProvenanceRows(fd)
              /\ provenance_view' = ProvenanceView(ProvenanceRows(fd))
              /\ rep_df' = IF RepairGuard(fd) THEN RepDf(RepairData(fd)) ELSE <<>>
              /\ repair_view' = RepairView(fd)
              /\ cst_view' = CstView(fd)
              /\ IF CstView(fd).exc # ""
                 THEN Raise(CstView(fd).exc)
                 ELSE IF fd.lean_unprovable = None \/ fd.dafny_violations = None
                 THEN \* lines 307, 309
                      Raise("KeyError")
                 ELSE pc' = "done" /\ UNCHANGED exc
    /\ UNCHANGED <<dir, dashboard_file, page, selected, idx, results,
                   iteration_results, final_dashboard, capsule, cst_section, prev_rows>>

-----------------------------------------------------------------------------
(* The user.  A change of a widget, or a press of "Rerun", runs the script *)
(* again from the top.                                                     *)

Pages == {"Overview", "Iteration Explorer", "Results Dashboard"}

Finished == pc \in {"done", "crashed"}

SelectPage ==
    /\ Finished
    /\ \E p \in Pages \ {page} : page' = p
    /\ StartRun
    /\ UNCHANGED <<dir, dashboard_file, selected>>

\* The selectbox is on the page once line 72 has run.
SelectIteration ==
    /\ Finished
    /\ page = "Iteration Explorer"
    /\ iteration_results # None
    /\ final_dashboard # None
    /\ \E i \in 1..Len(iteration_results[1]) :
          /\ Some(iteration_results[1][i].key) # selected
          /\ selected' = Some(iteration_results[1][i].key)
    /\ StartRun
    /\ UNCHANGED <<dir, dashboard_file, page>>

Rerun ==
    /\ Finished
    /\ StartRun
    /\ UNCHANGED <<dir, dashboard_file, page, selected>>

Next ==
    \/ LoadIterationFile
    \/ ReturnIterationData
    \/ LoadFinalDashboard
    \/ RenderOverview
    \/ RenderExplorer
    \/ RenderDashboard
    \/ SelectPage
    \/ SelectIteration
    \/ Rerun

-----------------------------------------------------------------------------
(* The files on disk.  Each specification below explores the inputs of one *)
(* component of the script and holds the other inputs at a plain value.    *)

PASS == <<"P", "A", "S", "S">>
FAIL_wildcard == <<"F", "A", "I", "L", ":", "w">>
FAI == <<"F", "A", "I">>
XFAIL == <<"X", "F", "A", "I", "L">>

\* Contract names: "B" < "a" < "ab" in code-point order.
Names == {<<"a">>, <<"a", "b">>, <<"B">>}

Outcomes == {PASS, FAIL, FAIL_wildcard, FAI, XFAIL}

IterationIds == 0..MaxIterationId

PlainProof == Some([strict_mode |-> [c \in {<<"a">>} |-> PASS]])

PlainCst == Some([before |-> Some(2504), after |-> Some(1000),
                  violation_reduction |-> Some(1504)])

PlainFile == [iteration |-> Some(0), desc |-> "m1", proof |-> PlainProof,
              cst_results |-> PlainCst]

PlainCs == Some([avg_before |-> Some(Num(2504)), avg_after |-> Some(Num(1000)),
                 avg_delta |-> Some(Num(1504)),
                 before_rates |-> Some(<<2504>>), after_rates |-> Some(<<1000>>)])

PlainDashboard ==
    [evolved_contracts |-> Some(<<<<"a">>>>),
     candidate_contracts |-> Some(<<>>),
     contract_metadata |-> Some([c \in {<<"a">>} |-> [origin |-> Some("seed")]]),
     repair_improvements |-> Some(<<<<0, 5000, 9000, 4000>>>>),
     repair_failures |-> Some(<<>>),
     cst_summary |-> PlainCs,
     lean_unprovable |-> Some(0),
     dafny_violations |-> Some(0)]

\* The state when the script first starts: the sidebar radio on its first
\* option, no pick in the selectbox, nothing loaded, nothing rendered.
InitRun ==
    /\ page = "Overview"
    /\ selected = None
    /\ pc = "load_iteration_data"
    /\ idx = 1
    /\ results = <<>>
    /\ iteration_results = None
    /\ final_dashboard = None
    /\ exc = ""
    /\ capsule = None
    /\ cst_section = "not rendered"
    /\ provenance_rows = <<>>
    /\ provenance_view = "not rendered"
    /\ rep_df = <<>>
    /\ repair_view = [kind |-> "not rendered"]
    /\ cst_view = [kind |-> "not rendered"]
    /\ prev_rows = None

\* --- The record store: any directory of iteration files ---

StoreFiles ==
    [iteration : Option(IterationIds), desc : {"m1", "m2"}, proof : {PlainProof},
     cst_results : {PlainCst}]

InitStore ==
    /\ dir \in SeqUpTo(StoreFiles, MaxFiles)
    /\ dashboard_file \in {None, Some(PlainDashboard)}
    /\ InitRun

SpecStore == InitStore /\ [][Next]_vars

\* --- The Iteration Explorer: the CST results of an iteration ---

CstChoices ==
    {None,
     Some(EmptyCst),
     Some([before |-> Some(2504), after |-> None, violation_reduction |-> None]),
     Some([before |-> Some(0), after |-> Some(0), violation_reduction |-> Some(0)]),
     PlainCst}

CstFiles ==
    [iteration : {Some(i) : i \in IterationIds}, desc : {"m1"}, proof : {PlainProof},
     cst_results : CstChoices]

InitCst ==
    /\ dir \in SeqUpTo(CstFiles, MaxCstFiles)
    /\ dashboard_file = Some(PlainDashboard)
    /\ InitRun

SpecCst == InitCst /\ [][Next]_vars

\* --- The Iteration Explorer: the strict-mode proof of an iteration ---

ProofChoices ==
    {None} \cup {Some([strict_mode |-> d]) : d \in Dicts(Names, Outcomes)}

ProofFiles ==
    [iteration : {Some(0)}, desc : {"m1"}, proof : ProofChoices,
     cst_results : {PlainCst}]

InitProof ==
    /\ dir \in SeqUpTo(ProofFiles, MaxProofFiles)
    /\ dashboard_file = Some(PlainDashboard)
    /\ InitRun

SpecProof == InitProof /\ [][Next]_vars

\* --- The Results Dashboard: contract provenance ---

Origins == {"gpt", "seed", "evolved"}

MetaEntries == [origin : Option(Origins)]

\* The names that contract_metadata may hold; "ab" comes from the lists only.
MetaNames == {<<"a">>, <<"B">>}

ProvenanceDashboards ==
    {[PlainDashboard EXCEPT !.evolved_contracts = e, !.candidate_contracts = c,
                            !.contract_metadata = m] :
        e \in Option(SeqUpTo(Names, MaxEvolved)),
        c \in Option(SeqUpTo(Names, MaxCandidates)),
        m \in Option(Dicts(MetaNames, MetaEntries))}

InitProvenance ==
    /\ dir = <<PlainFile>>
    /\ dashboard_file \in {Some(d) : d \in ProvenanceDashboards}
    /\ InitRun

SpecProvenance == InitProvenance /\ [][Next]_vars

\* --- The Results Dashboard: repair impact ---

\* (iterationId, beforeScore, afterScore, cstDelta): a repair that raised
\* the proof score, and one that did not.
ImprovementTuples == {<<i, 5000, 9000, 4000>> : i \in IterationIds}

FailureTuples == {<<i, 6000, 2500, 0>> : i \in IterationIds}

RepairDashboards ==
    {[PlainDashboard EXCEPT !.repair_improvements = i, !.repair_failures = f] :
        i \in Option(SeqUpTo(ImprovementTuples, MaxRepairs)),
        f \in Option(SeqUpTo(FailureTuples, MaxRepairs))}

InitRepair ==
    /\ dir = <<PlainFile>>
    /\ dashboard_file \in {Some(d) : d \in RepairDashboards}
    /\ InitRun

SpecRepair == InitRepair /\ [][Next]_vars

\* --- The Results Dashboard: the CST summary ---

JsonNumbers == {Null, Num(2504), Num(0)}

RateLists == SeqUpTo({2504}, MaxRates)

CsChoices ==
    {None} \cup
    {Some(cs) : cs \in [avg_before : Option(JsonNumbers),
                        avg_after : Option(JsonNumbers),
                        avg_delta : Option({Null, Num(1504)}),
                        before_rates : Option(RateLists),
                        after_rates : Option(RateLists)]}

SummaryDashboards ==
    {[PlainDashboard EXCEPT !.cst_summary = cs, !.lean_unprovable = l] :
        cs \in CsChoices, l \in Option({0})}

InitSummary ==
    /\ dir = <<PlainFile>>
    /\ dashboard_file \in {Some(d) : d \in SummaryDashboards}
    /\ InitRun

SpecSummary == InitSummary /\ [][Next]_vars

-----------------------------------------------------------------------------
(* Properties of the contract provenance rows (SpecProvenance).            *)

ProvenanceRendered == provenance_view # "not rendered"

\* The dashboard record read from its fields, not through the classifier.
InEvolved(c) ==
    /\ final_dashboard[1].evolved_contracts # None
    /\ \E j \in 1..Len(final_dashboard[1].evolved_contracts[1]) :
          final_dashboard[1].evolved_contracts[1][j] = c

InCandidates(c) ==
    /\ final_dashboard[1].candidate_contracts # None
    /\ \E j \in 1..Len(final_dashboard[1].candidate_contracts[1]) :
          final_dashboard[1].candidate_contracts[1][j] = c

InMetadata(c) ==
    /\ final_dashboard[1].contract_metadata # None
    /\ c \in DOMAIN final_dashboard[1].contract_metadata[1]

MetadataOriginIs(c, o) ==
    /\ InMetadata(c)
    /\ final_dashboard[1].contract_metadata[1][c].origin = Some(o)

RowOf(c) == provenance_rows[CHOOSE i \in 1..Len(provenance_rows) : provenance_rows[i].Contract = c]

HasRow(c) == \E i \in 1..Len(provenance_rows) : provenance_rows[i].Contract = c

\* C1: every row's promotion status is Promoted exactly when its contract is
\* in evolved_contracts, whatever its origin; a contract outside
\* evolved_contracts is Stable when its metadata origin is "seed" and
\* Candidate in every other case.
C1_PromotionStatus ==
    ProvenanceRendered =>
        \A i \in 1..Len(provenance_rows) :
            LET c == provenance_rows[i].Contract
                st == provenance_rows[i].PromotionStatus
            IN  /\ (st = "Promoted") <=> InEvolved(c)
                /\ (~InEvolved(c) /\ MetadataOriginIs(c, "seed")) => st = "Stable"
                /\ (~InEvolved(c) /\ ~MetadataOriginIs(c, "seed")) => st = "Candidate"

\* A seed contract that is evolved and shown Promoted, beside a Stable row
\* and a Candidate row.
C1_Witness ==
    /\ ProvenanceRendered
    /\ \E c \in Names :
          /\ HasRow(c) /\ InEvolved(c) /\ MetadataOriginIs(c, "seed")
          /\ RowOf(c).PromotionStatus = "Promoted"
    /\ \E c \in Names : HasRow(c) /\ RowOf(c).PromotionStatus = "Stable"
    /\ \E c \in Names : HasRow(c) /\ RowOf(c).PromotionStatus = "Candidate"

\* C2: every row carries one origin label: GPT when the metadata origin is
\* "gpt", Seed when it is "seed", Evolved in every other case, which
\* includes a contract without metadata and metadata without an origin.
C2_OriginLabel ==
    ProvenanceRendered =>
        \A i \in 1..Len(provenance_rows) :
            LET c == provenance_rows[i].Contract
                label == provenance_rows[i].Origin
            IN  /\ label \in {"GPT", "Seed", "Evolved"}
                /\ (label = "GPT") <=> MetadataOriginIs(c, "gpt")
                /\ (label = "Seed") <=> MetadataOriginIs(c, "seed")
                /\ (label = "Evolved") <=>
                      ~(MetadataOriginIs(c, "gpt") \/ MetadataOriginIs(c, "seed"))

\* The three labels on one page, Evolved both for a contract without
\* metadata and for one whose metadata has no origin.
C2_Witness ==
    /\ ProvenanceRendered
    /\ \E c \in Names : HasRow(c) /\ RowOf(c).Origin = "GPT"
    /\ \E c \in Names : HasRow(c) /\ ~InMetadata(c) /\ RowOf(c).Origin = "Evolved"
    /\ \E c \in Names :
          /\ HasRow(c) /\ InMetadata(c)
          /\ final_dashboard[1].contract_metadata[1][c].origin = None
          /\ RowOf(c).Origin = "Evolved"

\* The place of a name in ascending order of Python strings.
NameRank(c) ==
    CASE c = <<"B">> -> 1
      [] c = <<"a">> -> 2
      [] c = <<"a", "b">> -> 3

\* C3: the rows name exactly the contracts of evolved_contracts,
\* candidate_contracts and the keys of contract_metadata, each once, in
\* ascending order of name; and a run that follows a run of the same page on
\* the same record outputs the same rows.
C3_RowsCoverSortedIdempotent ==
    ProvenanceRendered =>
        /\ \A c \in Names :
              (InEvolved(c) \/ InCandidates(c) \/ InMetadata(c)) <=>
                  Cardinality({i \in 1..Len(provenance_rows) :
                                  provenance_rows[i].Contract = c}) = 1
        /\ \A i \in 1..Len(provenance_rows) : provenance_rows[i].Contract \in Names
        /\ \A i, j \in 1..Len(provenance_rows) :
              i < j => NameRank(provenance_rows[i].Contract)
                           < NameRank(provenance_rows[j].Contract)
        /\ prev_rows # None => provenance_rows = prev_rows[1]

\* A second run of the page, three rows, one of them for a contract that
\* only candidate_contracts names, and a name listed twice in evolved_contracts.
C3_Witness ==
    /\ ProvenanceRendered
    /\ prev_rows # None
    /\ Len(provenance_rows) = 3
    /\ \E c \in Names : InCandidates(c) /\ ~InEvolved(c) /\ ~InMetadata(c)
    /\ Len(final_dashboard[1].evolved_contracts[1]) = 2
    /\ final_dashboard[1].evolved_contracts[1][1] = final_dashboard[1].evolved_contracts[1][2]

-----------------------------------------------------------------------------
(* Properties of the record store (SpecStore).                             *)

\* The first file, among those the loop has read, that holds iteration id k.
FirstLoaded(k) ==
    dir[CHOOSE j \in 1..(idx - 1) :
            /\ dir[j].iteration = Some(k)
            /\ \A h \in 1..(j - 1) : dir[h].iteration # Some(k)]

\* C4: a record whose iteration id is already loaded is rejected: the record
\* stored under an id is the first one loaded with that id.
C4_FirstLoadedIsKept ==
    \A i \in 1..Len(results) :
        results[i].value = FirstLoaded(results[i].key)

\* C5: a malformed iteration file fails that file alone: once the load is
\* over, every well-formed iteration of the directory is in
\* iteration_results.
C5_OthersStillLoad ==
    pc # "load_iteration_data" =>
        \A j \in 1..Len(dir) :
            dir[j].iteration # None =>
                /\ iteration_results # None
                /\ HasKey(iteration_results[1], dir[j].iteration[1])

-----------------------------------------------------------------------------
(* Properties of the Iteration Explorer (SpecCst, SpecProof).              *)

\* The record the capsule on the page was built from.
ShownData == Lookup(iteration_results[1], capsule[1].iteration)

\* C6: for an iteration without cst_results the explorer shows the "no CST
\* results" state and no number for the violation rate before, the rate
\* after or the reduction.
C6_NoCstNoNumbers ==
    (capsule # None /\ ShownData.cst_results = None) =>
        /\ cst_section = "info: No CST results found"
        /\ capsule[1].before \notin Int
        /\ capsule[1].after \notin Int
        /\ capsule[1].reduction \notin Int

IsF(ch) == ch = "F"
IsA(ch) == ch = "A"
IsI(ch) == ch = "I"
IsL(ch) == ch = "L"

\* An outcome that begins with the four characters F, A, I, L.
BeginsWithFAIL(v) ==
    Len(v) >= 4 /\ IsF(v[1]) /\ IsA(v[2]) /\ IsI(v[3]) /\ IsL(v[4])

\* C10: the capsule's failure count is the number of contracts of
\* proof.strict_mode whose outcome begins with "FAIL", its contract count is
\* the number of entries of proof.strict_mode, and the first never exceeds
\* the second.
C10_FailureCount ==
    capsule # None =>
        LET strict_mode == ShownData.proof[1].strict_mode
        IN  /\ capsule[1].failures =
                   Cardinality({c \in DOMAIN strict_mode : BeginsWithFAIL(strict_mode[c])})
            /\ capsule[1].contracts = Cardinality(DOMAIN strict_mode)
            /\ capsule[1].failures <= capsule[1].contracts

\* The case of the specification: PASS, "FAIL" with a reason and a bare
\* "FAIL" give 2 failures among 3 contracts.
C10_Witness ==
    /\ capsule # None
    /\ capsule[1].contracts = 3
    /\ capsule[1].failures = 2
    /\ \E a, b, c \in DOMAIN ShownData.proof[1].strict_mode :
          /\ ShownData.proof[1].strict_mode[a] = PASS
          /\ ShownData.proof[1].strict_mode[b] = FAIL_wildcard
          /\ ShownData.proof[1].strict_mode[c] = FAIL

-----------------------------------------------------------------------------
(* Properties of the repair impact summary (SpecRepair).                   *)

RepairRendered == repair_view.kind # "not rendered"

Improvements ==
    IF final_dashboard[1].repair_improvements = None THEN <<>>
    ELSE final_dashboard[1].repair_improvements[1]

Failures ==
    IF final_dashboard[1].repair_failures = None THEN <<>>
    ELSE final_dashboard[1].repair_failures[1]

\* C7: with no repair tuple at all, the section reports a "no repair data"
\* state.
C7_EmptyReportsNoData ==
    (RepairRendered /\ Improvements = <<>> /\ Failures = <<>>) =>
        repair_view.kind = "no repair data"

InBoth(k) ==
    /\ \E i \in 1..Len(Improvements) : Improvements[i][1] = k
    /\ \E j \in 1..Len(Failures) : Failures[j][1] = k

EntriesOf(k) == {i \in 1..Len(rep_df) : rep_df[i].Iteration = k}

-----------------------------------------------------------------------------
(* Properties of the CST summary (SpecSummary).                            *)

SummaryRendered == cst_view.kind # "not rendered"

\* cst_summary is missing, or its avg_before is missing or null.
NoAvgBefore ==
    \/ final_dashboard[1].cst_summary = None
    \/ final_dashboard[1].cst_summary[1].avg_before = None
    \/ final_dashboard[1].cst_summary[1].avg_before = Some(Null)

\* C8: without cst_summary, or without a non-null avg_before in it, the
\* section shows the "no summary" state whatever the other fields hold; an
\* average is shown only when cst_summary has a non-null avg_before.
C8_NoSummaryWithoutAvgBefore ==
    SummaryRendered =>
        /\ NoAvgBefore => cst_view.kind = "warning: No CST summary available"
        /\ (\/ cst_view.kind = "metrics"
            \/ cst_view.avg_before # None
            \/ cst_view.avg_after # None
            \/ cst_view.avg_delta # None
            \/ cst_view.chart # None) => ~NoAvgBefore

\* A null avg_before beside populated averages and series: the "no summary"
\* state.
C8_Witness ==
    /\ SummaryRendered
    /\ final_dashboard[1].cst_summary # None
    /\ final_dashboard[1].cst_summary[1].avg_before = Some(Null)
    /\ final_dashboard[1].cst_summary[1].avg_after = Some(Num(2504))
    /\ final_dashboard[1].cst_summary[1].avg_delta = Some(Num(1504))
    /\ final_dashboard[1].cst_summary[1].before_rates = Some(<<2504>>)
    /\ final_dashboard[1].cst_summary[1].after_rates = Some(<<2504>>)
    /\ cst_view.kind = "warning: No CST summary available"

====
